---- MODULE Spec2Model ----
(***************************************************************************)
(* Leaf-node update strategies of the persistent-memory index simulators   *)
(* (article1..3 and their mixed-workload extensions), their cost counters  *)
(* (Nw word writes, Nclf cache-line flushes, Nmf fences), the toy PMwCAS   *)
(* and the benchmark drivers.                                              *)
(*                                                                         *)
(* Counters are uint64_t in the source; every run modelled here stays far  *)
(* below 2^31, so no wrap-around is reachable and plain integers are used. *)
(***************************************************************************)
EXTENDS Integers, Sequences, FiniteSets, TLC

(***************************************************************************)
(* Bounds of the model.                                                    *)
(***************************************************************************)
\* Keys are drawn from 1..MaxKey (the source draws from 1..1e9 / 1..1e8).
MaxKey == 2
\* Largest num_ops (timed iterations) a run is given (the source uses 100000).
MaxOps == 3
\* Longest descriptor handed to pmwcas, and calls of it in one behaviour.
MaxEntries == 2
MaxCalls == 2
\* Largest scaled OPS of article3's main (above CAP - PREFILL = 10).
MaxBenchOps == 12
\* Largest scaled PREFILL of article1's main, and its validation sample.
MaxPrefill == 3
MaxSample == 2

(***************************************************************************)
(* Program constants.                                                      *)
(***************************************************************************)
\* article2_wbtree.cpp:22 and article3_bztree.cpp:62
CAP == 32
\* article1_sorted_unsorted.cpp:19,25,41
LEAF_KEYS == 128
\* article1_sorted_unsorted.cpp:76
NUM_LEAVES == 64

Keys == 1..MaxKey
\* Keys a search may probe: the key domain and one key outside it.
ProbeKeys == 1..(MaxKey + 1)

ArrayVariants == {"insert_sorted", "insert_unsorted", "LeafBTreeVolatile",
                  "LeafBTreeLog", "LeafWBTree", "bztree"}
VectorVariants == {"UnsortedLeaf", "SortedLeaf", "LeafBaseline", "LeafLogging",
                   "LeafWBTreeExt", "SimpleLeaf", "BzLeaf"}
Variants == ArrayVariants \cup VectorVariants

\* The capacity of a variant's key array; for the std::vector leaves of the
\* extension simulators (which declare none) the capacity of the array leaf of
\* the same article.
Capacity(v) ==
  IF v \in {"insert_sorted", "insert_unsorted", "UnsortedLeaf", "SortedLeaf"}
  THEN LEAF_KEYS ELSE CAP

(***************************************************************************)
(* Stats: the counter triple, and pcm_write / pcm_flush / pcm_fence.       *)
(***************************************************************************)
Stats0 == [Nw |-> 0, Nclf |-> 0, Nmf |-> 0]

pcm_write(s, words) == [s EXCEPT !.Nw = @ + words]
pcm_flush(s) == [s EXCEPT !.Nclf = @ + 1]
pcm_fence(s) == [s EXCEPT !.Nmf = @ + 1]

\* s.Nw += w; s.Nclf += f; s.Nmf += m  (the fixed coefficients of the extensions)
AddCost(s, w, f, m) == [Nw |-> s.Nw + w, Nclf |-> s.Nclf + f, Nmf |-> s.Nmf + m]

(***************************************************************************)
(* Leaves.  An array leaf is keys[0..cap-1] and count; a slot never        *)
(* written holds 0 here (the source never reads one).  The BzTree leaf     *)
(* also carries the 4 bytes of tail padding that follow its int count.     *)
(* A vector leaf is its std::vector of keys.                               *)
(***************************************************************************)
ArrayLeaf0(cap) == [keys |-> [j \in 0..(cap - 1) |-> 0], count |-> 0]
BzLeaf0 == [keys |-> [j \in 0..(CAP - 1) |-> 0], count |-> 0, pad |-> 0]
VectorLeaf0 == [keys |-> << >>]

Leaf0(v) ==
  IF v \in VectorVariants THEN VectorLeaf0
  ELSE IF v = "bztree" THEN BzLeaf0
  ELSE ArrayLeaf0(Capacity(v))

\* Number of keys a leaf holds: count, or keys.size().
Count(v, leaf) == IF v \in VectorVariants THEN Len(leaf.keys) ELSE leaf.count

\* The stored keys at indices 0..count-1, as a sequence.
Stored(v, leaf) ==
  IF v \in VectorVariants THEN leaf.keys
  ELSE [j \in 1..leaf.count |-> leaf.keys[j - 1]]

(***************************************************************************)
(* Sorted array insert: the position scan and the shift loop.              *)
(***************************************************************************)
\* A scan that stops at once: the key always lands at index 0.
ScanPosNoScan(keys, count, k, pos) == pos

\* A scan that also passes the keys equal to k.
ScanPosPastEqual(keys, count, k, pos) ==
  CHOOSE p \in pos..count :
    /\ ~(p < count /\ keys[p] <= k)
    /\ \A q \in pos..(p - 1) : q < count /\ keys[q] <= k

\* while (pos < count && keys[pos] < k) ++pos;
\* The loop leaves pos at the first index from pos on that is count or holds a
\* key not less than k.
ScanPos(keys, count, k, pos) ==
  CHOOSE p \in pos..count :
    /\ ~(p < count /\ keys[p] < k)
    /\ \A q \in pos..(p - 1) : q < count /\ keys[q] < k

\* A shift loop that moves the keys without metering the moves.
ShiftLoopUncounted(keys, i, pos, n) ==
  [keys |-> [j \in DOMAIN keys |-> IF pos < j /\ j <= i THEN keys[j - 1] ELSE keys[j]],
   n |-> n]

\* for (i = count; i > pos; --i) { keys[i] = keys[i-1]; pcm_write(); }
\* Run downwards from i, every keys[j], pos < j <= i, receives the key that
\* was at j - 1 before the loop (index j - 1 is overwritten only after it was
\* read); n counts the words copied.
ShiftLoop(keys, i, pos, n) ==
  [keys |-> [j \in DOMAIN keys |-> IF pos < j /\ j <= i THEN keys[j - 1] ELSE keys[j]],
   n |-> IF i > pos THEN n + (i - pos) ELSE n]

\* The in-place sorted update shared by insert_sorted, LeafBTreeVolatile and
\* LeafBTreeLog: scan, shift, keys[pos] = k, ++count, one write for the key.
ShiftInsert(leaf, k, s) ==
  LET pos == ScanPos(leaf.keys, leaf.count, k, 0)
      sh == ShiftLoop(leaf.keys, leaf.count, pos, 0)
  IN [leaf |-> [leaf EXCEPT !.keys = [sh.keys EXCEPT ![pos] = k],
                            !.count = leaf.count + 1],
      s |-> pcm_write(s, sh.n + 1)]

\* article1: insert_sorted
insert_sorted(leaf, k, s) ==
  IF leaf.count >= LEAF_KEYS THEN [leaf |-> leaf, s |-> s]
  ELSE LET r == ShiftInsert(leaf, k, s)
       IN [leaf |-> r.leaf, s |-> pcm_fence(pcm_flush(r.s))]

\* article1: insert_unsorted
insert_unsorted(leaf, k, s) ==
  IF leaf.count >= LEAF_KEYS THEN [leaf |-> leaf, s |-> s]
  ELSE [leaf |-> [leaf EXCEPT !.keys[leaf.count] = k, !.count = leaf.count + 1],
        s |-> pcm_fence(pcm_flush(pcm_write(s, 1)))]

\* article2: LeafBTreeVolatile::insert
LeafBTreeVolatile_insert(leaf, k, s) ==
  IF leaf.count >= CAP THEN [leaf |-> leaf, s |-> s]
  ELSE ShiftInsert(leaf, k, s)

\* A log record that is written and flushed but not fenced.
WriteLogRecordUnfenced(s) == pcm_flush(pcm_write(s, 4))

\* LeafBTreeLog::insert, step 1: pcm_write(s, 4); pcm_flush(s); pcm_fence(s);
WriteLogRecord(s) == pcm_fence(pcm_flush(pcm_write(s, 4)))

\* article2: LeafBTreeLog::insert
LeafBTreeLog_insert(leaf, k, s) ==
  IF leaf.count >= CAP THEN [leaf |-> leaf, s |-> s]
  ELSE LET logged == WriteLogRecord(s)
           r == ShiftInsert(leaf, k, logged)
       IN [leaf |-> r.leaf, s |-> pcm_fence(pcm_flush(r.s))]

\* article2: LeafWBTree::insert
LeafWBTree_insert(leaf, k, s) ==
  IF leaf.count >= CAP THEN [leaf |-> leaf, s |-> s]
  ELSE [leaf |-> [leaf EXCEPT !.keys[leaf.count] = k, !.count = leaf.count + 1],
        s |-> pcm_fence(pcm_flush(pcm_write(s, 2)))]

(***************************************************************************)
(* Toy PMwCAS.  A descriptor is a sequence of entries [addr, new_val]; an  *)
(* address is <<"keys", j>> (the word keys[j]) or <<"count">> (the address *)
(* of the leaf's count).  Every entry is stored as one 64-bit word.        *)
(*                                                                         *)
(* bztree_insert passes (uint64_t* )&leaf.count: count is a 4-byte int      *)
(* followed by 4 bytes of padding, so the 8-byte store covers both.  The   *)
(* store through a uint64_t lvalue to an int object is undefined; what a   *)
(* build produces is the store of the two halves in the target's byte      *)
(* order: little-endian puts the low half in count, big-endian the high    *)
(* half.                                                                   *)
(***************************************************************************)
Builds == {"little_endian", "big_endian"}

\* The high and the low 32 bits of a 64-bit value (in two 16-bit steps, to stay
\* within the checker's integers).
Hi32(x) == (x \div 65536) \div 65536
Lo32(x) == x - (Hi32(x) * 65536) * 65536

\* *(e.addr) = e.new_val
StoreWord(mem, addr, val, build) ==
  IF addr[1] = "keys" THEN [mem EXCEPT !.keys[addr[2]] = val]
  ELSE IF build = "little_endian"
       THEN [mem EXCEPT !.count = Lo32(val), !.pad = Hi32(val)]
       ELSE [mem EXCEPT !.count = Hi32(val), !.pad = Lo32(val)]

\* for (auto &e : desc.entries) { *(e.addr) = e.new_val; pcm_write(s); }
RECURSIVE ApplyEntries(_, _, _, _, _)
ApplyEntries(entries, j, mem, s, build) ==
  IF j > Len(entries) THEN [leaf |-> mem, s |-> s]
  ELSE ApplyEntries(entries, j + 1,
                    StoreWord(mem, entries[j].addr, entries[j].new_val, build),
                    pcm_write(s, 1), build)

\* A pmwcas that leaves out the final persist of the applied state.
pmwcas_unpersisted(desc, mem, s, build) ==
  LET persisted == pcm_fence(pcm_flush(pcm_write(s, 2)))
      applied == ApplyEntries(desc, 1, mem, persisted, build)
  IN [leaf |-> applied.leaf, s |-> applied.s, ret |-> TRUE]

\* article3: pmwcas
pmwcas(desc, mem, s, build) ==
  LET persisted == pcm_fence(pcm_flush(pcm_write(s, 2)))
      applied == ApplyEntries(desc, 1, mem, persisted, build)
  IN [leaf |-> applied.leaf, s |-> pcm_fence(pcm_flush(applied.s)), ret |-> TRUE]

\* article3: bztree_insert
bztree_insert(leaf, key, s, build) ==
  IF leaf.count >= CAP THEN [leaf |-> leaf, s |-> s]
  ELSE LET d == << [addr |-> <<"keys", leaf.count>>, new_val |-> key],
                   [addr |-> <<"count">>, new_val |-> leaf.count + 1] >>
           r == pmwcas(d, leaf, s, build)
       IN [leaf |-> r.leaf, s |-> r.s]

(***************************************************************************)
(* Vector leaves of the extension simulators.                              *)
(***************************************************************************)
\* std::lower_bound(keys.begin(), keys.end(), key): the first index (1-based
\* here) whose element is not less than key, Len + 1 when there is none.
LowerBound(keys, key) ==
  LET ge == {j \in 1..Len(keys) : ~(keys[j] < key)}
  IN IF ge = {} THEN Len(keys) + 1
     ELSE CHOOSE j \in ge : \A m \in ge : j <= m

\* keys.insert(it, key)
VectorInsertAt(keys, pos, key) ==
  [j \in 1..(Len(keys) + 1) |->
     IF j < pos THEN keys[j] ELSE IF j = pos THEN key ELSE keys[j - 1]]

\* UnsortedLeaf::insert
UnsortedLeaf_insert(leaf, key, s) ==
  [leaf |-> [keys |-> Append(leaf.keys, key)], s |-> AddCost(s, 1, 1, 1)]

\* SortedLeaf / LeafBaseline / LeafLogging / LeafWBTree(ext) / SimpleLeaf /
\* BzLeaf ::insert: lower_bound, vector insert, fixed cost (w, f, m).
SortedVector_insert(leaf, key, s, w, f, m) ==
  [leaf |-> [keys |-> VectorInsertAt(leaf.keys, LowerBound(leaf.keys, key), key)],
   s |-> AddCost(s, w, f, m)]

\* insert of variant v.
Insert(v, leaf, key, s, build) ==
  CASE v = "insert_sorted" -> insert_sorted(leaf, key, s)
    [] v = "insert_unsorted" -> insert_unsorted(leaf, key, s)
    [] v = "LeafBTreeVolatile" -> LeafBTreeVolatile_insert(leaf, key, s)
    [] v = "LeafBTreeLog" -> LeafBTreeLog_insert(leaf, key, s)
    [] v = "LeafWBTree" -> LeafWBTree_insert(leaf, key, s)
    [] v = "bztree" -> bztree_insert(leaf, key, s, build)
    [] v = "UnsortedLeaf" -> UnsortedLeaf_insert(leaf, key, s)
    [] v = "SortedLeaf" -> SortedVector_insert(leaf, key, s, 4, 2, 1)
    [] v = "LeafBaseline" -> SortedVector_insert(leaf, key, s, 4, 2, 1)
    [] v = "LeafLogging" -> SortedVector_insert(leaf, key, s, 8, 4, 2)
    [] v = "LeafWBTreeExt" -> SortedVector_insert(leaf, key, s, 2, 1, 1)
    [] v = "SimpleLeaf" -> SortedVector_insert(leaf, key, s, 4, 2, 1)
    [] v = "BzLeaf" -> SortedVector_insert(leaf, key, s, 3, 3, 2)

(***************************************************************************)
(* Searches.  Each returns the leaf and the Stats it was handed together   *)
(* with the answer, so that what a search leaves behind is part of the     *)
(* model.                                                                  *)
(***************************************************************************)
\* for (i = 0; i < count; i++) if (keys[i] == target) return true;
\* return false;
LinearScan(keys, count, target, j) ==
  \E m \in j..(count - 1) : keys[m] = target

\* while (lo <= hi) { mid = (lo + hi) / 2; ... }
RECURSIVE BinarySearch(_, _, _, _)
BinarySearch(keys, k, lo, hi) ==
  IF lo <= hi
  THEN LET mid == (lo + hi) \div 2
       IN IF keys[mid] = k THEN TRUE
          ELSE IF keys[mid] < k THEN BinarySearch(keys, k, mid + 1, hi)
          ELSE BinarySearch(keys, k, lo, mid - 1)
  ELSE FALSE

\* search_leaf (article1, article3) and LeafWBTree::search
search_leaf(leaf, key, s) ==
  [found |-> LinearScan(leaf.keys, leaf.count, key, 0), leaf |-> leaf, s |-> s]

\* LeafBTreeVolatile::search and LeafBTreeLog::search
LeafBTree_search(leaf, k, s) ==
  [found |-> BinarySearch(leaf.keys, k, 0, leaf.count - 1), leaf |-> leaf, s |-> s]

\* A scan that wears the memory: one word write per call.
UnsortedLeaf_search_wear(leaf, key, s) ==
  [found |-> \E j \in 1..Len(leaf.keys) : leaf.keys[j] = key, leaf |-> leaf,
   s |-> pcm_write(s, 1)]

\* UnsortedLeaf::search: for (auto k : keys) if (k == key) return true;
UnsortedLeaf_search(leaf, key, s) ==
  [found |-> \E j \in 1..Len(leaf.keys) : leaf.keys[j] = key, leaf |-> leaf, s |-> s]

\* SortedLeaf::search and the other lower_bound searches
SortedVector_search(leaf, key, s) ==
  LET it == LowerBound(leaf.keys, key)
  IN [found |-> it /= Len(leaf.keys) + 1 /\ leaf.keys[it] = key,
      leaf |-> leaf, s |-> s]

\* search of variant v.
Search(v, leaf, key, s) ==
  CASE v \in {"insert_sorted", "insert_unsorted", "LeafWBTree", "bztree"} ->
         search_leaf(leaf, key, s)
    [] v \in {"LeafBTreeVolatile", "LeafBTreeLog"} -> LeafBTree_search(leaf, key, s)
    [] v = "UnsortedLeaf" -> UnsortedLeaf_search(leaf, key, s)
    [] OTHER -> SortedVector_search(leaf, key, s)

(***************************************************************************)
(* Workload generator.  std::mt19937_64 and the two distributions are      *)
(* library code; what the drivers rely on is that the n-th draw is a       *)
(* function of the seed alone.  The stand-in: a seed is three base-MaxKey  *)
(* digits and the stream repeats them, so the seeds enumerate every        *)
(* stream prefix of length three.                                          *)
(***************************************************************************)
Seeds == 0..(MaxKey * MaxKey * MaxKey - 1)

\* The n-th raw output (n = 0, 1, ...) of the generator seeded with seed.
Raw(seed, n) ==
  LET d == n % 3
  IN IF d = 0 THEN seed % MaxKey
     ELSE IF d = 1 THEN (seed \div MaxKey) % MaxKey
     ELSE (seed \div (MaxKey * MaxKey)) % MaxKey

\* dist_key(rng): uniform_int_distribution over the key domain, from 1.
dist_key(seed, n) == 1 + Raw(seed, n)

\* dist01(rng): uniform_real_distribution over [0,1), as the numerator of a
\* fraction with denominator MaxKey.
dist01(seed, n) == Raw(seed, n)

\* write_ratio values, in tenths: main's {0.9, 0.5, 0.1, 0.0}, and 1.0 (the
\* insert-only benchmarks).
WriteRatios == {9, 5, 1, 0, 10}

\* r < write_ratio, r = num / MaxKey and write_ratio in tenths.
IsWrite(r, ratio) == r * 10 < ratio * MaxKey

(***************************************************************************)
(* Clock and throughput.  elapsed is t1 - t0 in clock ticks; the clock is  *)
(* std::chrono::high_resolution_clock, which may not advance between two   *)
(* readings and, where it is the system clock, may step back.              *)
(***************************************************************************)
ElapsedTicks == {-1, 0, 1}

\* static_cast<double>(num_ops) / elapsed.count(): IEEE-754 double division.
Throughput(ops, el) ==
  IF el /= 0 THEN [kind |-> "finite", num |-> ops, den |-> el]
  ELSE IF ops = 0 THEN [kind |-> "nan", num |-> ops, den |-> el]
  ELSE [kind |-> "inf", num |-> ops, den |-> el]

NoResult == [kind |-> "none", num |-> 0, den |-> 0]

(***************************************************************************)
(* State.                                                                  *)
(***************************************************************************)
VARIABLES
  variant,      \* the LeafType under test
  build,        \* the target's byte order
  seed,         \* the generator's seed
  prefillMax,   \* the largest prefill argument the run may be given
  rng,          \* number of draws taken from the generator
  leaf,         \* the leaf (article1: base_leaf)
  stats,        \* the run's Stats (article1: the globals Nw, Nclf, Nmf)
  phase,        \* where the program is
  i,            \* the loop counter of the phase
  prefill,      \* the driver's arguments, -1 until first read
  num_ops,
  write_ratio,
  elapsed,      \* t1 - t0
  res,          \* MixedResult: throughput_ops_sec and stats
  outcome,      \* how the run ended: "running", "returned", "error"
  script,       \* the key vector a benchmark replays (ops, bench_keys)
  hits,         \* main's count of sampled keys found
  index,        \* article1: the leaves of the SimpleBPlusTree
  rows,         \* article1: the counters written to the two CSV rows
  snapshot,     \* history: stats and leaf before the last phase or call
  last,         \* history: the last operation and what it met
  ins,          \* history: keys whose insert was applied below capacity
  att,          \* history: keys whose insert was attempted
  commits,      \* history: inserts of the timed phase that changed the leaf
  own,          \* history: article1: the cost each run recorded itself
  run,          \* which run of the same arguments this is (1 or 2)
  first,        \* history: the Stats run 1 returned and the leaf it left
  peer          \* article2: the LeafBTreeLog leaf and Stats fed the same keys

config == <<variant, build, seed, prefillMax>>
args == <<prefill, num_ops, write_ratio>>
result == <<elapsed, res, outcome>>
mainVars == <<script, hits, index, rows, own>>
opHist == <<last, ins, att>>
runHist == <<run, first, peer>>

vars == <<variant, build, seed, prefillMax, rng, leaf, stats, phase, i, prefill,
          num_ops, write_ratio, elapsed, res, outcome, script, hits, index, rows,
          snapshot, last, ins, att, commits, own, run, first,
          peer>>

NoOp == [op |-> "none", key |-> 0, full |-> FALSE, found |-> FALSE]
NoOwn == [sorted |-> Stats0, unsorted |-> Stats0]
NoRow == [throughput |-> NoResult, stats |-> Stats0, hits |-> 0]
NoRows == [sorted |-> NoRow, unsorted |-> NoRow]

\* Whether an insert into leaf finds it below the variant's capacity.
BelowCapacity(v, lf) == Count(v, lf) < Capacity(v)

\* Prefill counts at which the timed phase may begin: the empty and nearly
\* empty leaf, main's PREFILL = CAP * 7 / 10, and the leaf at and next to its
\* capacity.
PrefillLevels(v) ==
  {0, 1, (Capacity(v) * 7) \div 10, Capacity(v) - 1, Capacity(v)}

\* What every program starts from: nothing drawn, nothing counted; scr is the
\* key vector it is handed and idx the tree it constructs, if any.
FreshWith(scr, idx) ==
  /\ rng = 0
  /\ leaf = Leaf0(variant)
  /\ stats = Stats0
  /\ i = 0
  /\ prefill = -1
  /\ num_ops = -1
  /\ write_ratio = -1
  /\ elapsed = 0
  /\ res = [throughput_ops_sec |-> NoResult, stats |-> Stats0]
  /\ outcome = "running"
  /\ script = scr
  /\ hits = 0
  /\ index = idx
  /\ rows = NoRows
  /\ snapshot = [stats |-> Stats0, leaf |-> Leaf0(variant)]
  /\ last = NoOp
  /\ ins = {}
  /\ att = {}
  /\ commits = 0
  /\ own = NoOwn
  /\ run = 1
  /\ first = [stats |-> Stats0, leaf |-> Leaf0(variant)]
  /\ peer = [leaf |-> ArrayLeaf0(CAP), stats |-> Stats0]

Fresh == FreshWith(<< >>, << >>)

(***************************************************************************)
(* The mixed-workload driver, run_mixed_workload<LeafType>(prefill,        *)
(* num_ops, write_ratio), over every leaf variant.  Its arguments are      *)
(* fixed when they are first read: prefill when the prefill loop ends,     *)
(* num_ops and write_ratio when the timed loop begins.                     *)
(***************************************************************************)
Init ==
  /\ variant \in Variants
  /\ build \in (IF variant = "bztree" THEN Builds ELSE {"little_endian"})
  /\ seed \in Seeds
  /\ prefillMax = Capacity(variant)
  /\ phase = "prefill"
  /\ Fresh

\* One insert call of the driver, with the history it leaves.
DoInsert(key) ==
  LET r == Insert(variant, leaf, key, stats, build)
  IN /\ leaf' = r.leaf
     /\ stats' = r.s
     /\ last' = [op |-> "insert", key |-> key,
                 full |-> ~BelowCapacity(variant, leaf), found |-> FALSE]
     /\ att' = att \cup {key}
     /\ ins' = IF BelowCapacity(variant, leaf) THEN ins \cup {key} ELSE ins

\* One search call of the driver; the result is discarded.
DoSearch(key) ==
  LET r == Search(variant, leaf, key, stats)
  IN /\ leaf' = r.leaf
     /\ stats' = r.s
     /\ last' = [op |-> "search", key |-> key,
                 full |-> ~BelowCapacity(variant, leaf), found |-> r.found]
     /\ UNCHANGED <<att, ins>>

\* for (i = 0; i < prefill; ++i) leaf.insert(dist_key(rng), stats);
PrefillStep ==
  /\ phase = "prefill"
  /\ i < (IF run = 1 THEN prefillMax ELSE prefill)
  /\ DoInsert(dist_key(seed, rng))
  /\ rng' = rng + 1
  /\ i' = i + 1
  /\ UNCHANGED <<config, phase, args, result, mainVars, snapshot, commits, runHist>>

\* The prefill loop ends (i = prefill) and t0 is read.
StartTimed ==
  /\ phase = "prefill"
  /\ IF run = 1
     THEN /\ i \in PrefillLevels(variant) \cup {prefillMax}
          /\ prefill' = i
          /\ num_ops' \in 0..MaxOps
          /\ write_ratio' \in WriteRatios
     ELSE /\ i = prefill
          /\ UNCHANGED args
  /\ phase' = "timed"
  /\ i' = 0
  /\ snapshot' = [stats |-> stats, leaf |-> leaf]
  /\ UNCHANGED <<config, rng, leaf, stats, result, mainVars, opHist, commits,
                 runHist>>

\* One iteration of the timed loop: r, then key, then insert or search.
TimedOp ==
  /\ phase = "timed"
  /\ i < num_ops
  /\ LET r == dist01(seed, rng)
         key == dist_key(seed, rng + 1)
     IN IF IsWrite(r, write_ratio)
        THEN /\ DoInsert(key)
             /\ commits' = IF leaf' /= leaf THEN commits + 1 ELSE commits
        ELSE /\ DoSearch(key)
             /\ UNCHANGED commits
  /\ rng' = rng + 2
  /\ i' = i + 1
  /\ UNCHANGED <<config, phase, args, result, mainVars, snapshot, runHist>>

\* The timed loop ends, t1 is read, and the result is built and returned.
Finish ==
  /\ phase = "timed"
  /\ i = num_ops
  /\ \E el \in ElapsedTicks :
       /\ elapsed' = el
       /\ res' = [throughput_ops_sec |-> Throughput(num_ops, el), stats |-> stats]
  /\ outcome' = "returned"
  /\ phase' = "done"
  /\ UNCHANGED <<config, rng, leaf, stats, i, args, mainVars, snapshot, opHist,
                 commits, runHist>>

Next == PrefillStep \/ StartTimed \/ TimedOp \/ Finish

Spec == Init /\ [][Next]_vars

(***************************************************************************)
(* A second call of run_mixed_workload<LeafType> with the same arguments:  *)
(* the function constructs its leaf, its Stats and its generator (with the *)
(* same literal seed) anew on entry.  The leaf types are the ones the      *)
(* extension simulators instantiate the driver with.                       *)
(***************************************************************************)
\* An entry whose generator is not constructed anew (a static generator).
EntryStaticRng(v) == [leaf |-> Leaf0(v), stats |-> Stats0, rng |-> rng]

\* What a run_mixed_workload entry constructs: LeafType leaf; Stats stats;
\* std::mt19937_64 rng(seed).
Entry(v) == [leaf |-> Leaf0(v), stats |-> Stats0, rng |-> 0]

Rerun ==
  /\ phase = "done"
  /\ run = 1
  /\ first' = [stats |-> res.stats, leaf |-> leaf]
  /\ run' = 2
  /\ leaf' = Entry(variant).leaf
  /\ stats' = Entry(variant).stats
  /\ rng' = Entry(variant).rng
  /\ phase' = "prefill"
  /\ i' = 0
  /\ elapsed' = 0
  /\ res' = [throughput_ops_sec |-> NoResult, stats |-> Stats0]
  /\ outcome' = "running"
  /\ snapshot' = [stats |-> Stats0, leaf |-> Leaf0(variant)]
  /\ last' = NoOp
  /\ ins' = {}
  /\ att' = {}
  /\ commits' = 0
  /\ UNCHANGED <<config, args, mainVars, peer>>

InitRepeat ==
  /\ variant \in VectorVariants
  /\ build = "little_endian"
  /\ seed \in Seeds
  /\ prefillMax = 1
  /\ phase = "prefill"
  /\ Fresh

NextRepeat == PrefillStep \/ StartTimed \/ TimedOp \/ Finish \/ Rerun

SpecRepeat == InitRepeat /\ [][NextRepeat]_vars

(***************************************************************************)
(* pmwcas called directly, with descriptors of 0..MaxEntries entries that  *)
(* target words of a LeafNode.                                             *)
(***************************************************************************)
TargetAddrs == {<<"keys", 0>>, <<"count">>}
Entries == [addr : TargetAddrs, new_val : Keys]
Descriptors == UNION {[1..n -> Entries] : n \in 0..MaxEntries}

InitP ==
  /\ variant = "bztree"
  /\ build \in Builds
  /\ seed = 0
  /\ prefillMax = 0
  /\ phase = "pmwcas"
  /\ Fresh

\* bool ok = pmwcas(d, s);
PmwcasCall ==
  /\ phase = "pmwcas"
  /\ i < MaxCalls
  /\ \E desc \in Descriptors :
       LET r == pmwcas(desc, leaf, stats, build)
       IN /\ leaf' = r.leaf
          /\ stats' = r.s
          /\ last' = [op |-> "pmwcas", key |-> Len(desc), full |-> FALSE,
                      found |-> r.ret]
  /\ snapshot' = [stats |-> stats, leaf |-> leaf]
  /\ i' = i + 1
  /\ UNCHANGED <<config, rng, phase, args, result, mainVars, ins, att, commits,
                 runHist>>

NextP == PmwcasCall

SpecP == InitP /\ [][NextP]_vars

(***************************************************************************)
(* A sorted in-place leaf fed a fixed key vector: the five keys of the     *)
(* scenario in any order.                                                  *)
(***************************************************************************)
ScenarioKeys == <<5, 3, 4, 1, 2>>

Scripts ==
  {sq \in [1..Len(ScenarioKeys) -> 1..Len(ScenarioKeys)] :
     \A a, b \in 1..Len(ScenarioKeys) : sq[a] = sq[b] => a = b}

InitC ==
  /\ variant \in {"LeafBTreeVolatile", "insert_sorted"}
  /\ build = "little_endian"
  /\ seed = 0
  /\ prefillMax = 0
  /\ phase = "script"
  /\ \E scr \in Scripts : FreshWith(scr, << >>)

\* for (auto k : keys) leaf.insert(k, s);
ScriptInsert ==
  /\ phase = "script"
  /\ i < Len(script)
  /\ DoInsert(script[i + 1])
  /\ i' = i + 1
  /\ UNCHANGED <<config, rng, phase, args, result, mainVars, snapshot, commits,
                 runHist>>

NextC == ScriptInsert

SpecC == InitC /\ [][NextC]_vars

(***************************************************************************)
(* article3_bztree.cpp: main.  OPS is scaled to 0..MaxBenchOps and the     *)
(* validation sample to the first MaxSample keys of ops.                   *)
(***************************************************************************)
PREFILL == (CAP * 7) \div 10

\* vector<uint64_t> v(n); for (auto &k : v) k = dist(rng);
DrawKeys(n) == [j \in 1..n |-> dist_key(seed, rng + j - 1)]

\* for (i = 0; i < sample; i++) if (search_leaf(leaf, keys[i])) hits++;
SampleHits(lf, keys) ==
  Cardinality({j \in 1..(IF Len(keys) < MaxSample THEN Len(keys) ELSE MaxSample) :
                 search_leaf(lf, keys[j], Stats0).found})

InitBz ==
  /\ variant = "bztree"
  /\ build \in Builds
  /\ seed \in Seeds
  /\ prefillMax = PREFILL
  /\ phase = "prefill"
  /\ Fresh

\* for (int i = 0; i < PREFILL; i++) bztree_insert(leaf, dist(rng), stats);
BzPrefill ==
  /\ phase = "prefill"
  /\ i < PREFILL
  /\ DoInsert(dist_key(seed, rng))
  /\ rng' = rng + 1
  /\ i' = i + 1
  /\ UNCHANGED <<config, phase, args, result, mainVars, snapshot, commits, runHist>>

\* vector<uint64_t> ops(OPS); for (auto &k : ops) k = dist(rng); t0 = now();
BzDrawOps ==
  /\ phase = "prefill"
  /\ i = PREFILL
  /\ \E n \in 0..MaxBenchOps :
       /\ num_ops' = n
       /\ script' = DrawKeys(n)
       /\ rng' = rng + n
  /\ prefill' = PREFILL
  /\ write_ratio' = 10
  /\ phase' = "timed"
  /\ i' = 0
  /\ snapshot' = [stats |-> stats, leaf |-> leaf]
  /\ UNCHANGED <<config, leaf, stats, result, hits, index, rows, own, opHist,
                 commits, runHist>>

\* for (auto k : ops) bztree_insert(leaf, k, stats);
BzBenchOp ==
  /\ phase = "timed"
  /\ i < Len(script)
  /\ DoInsert(script[i + 1])
  /\ commits' = IF BelowCapacity(variant, leaf) THEN commits + 1 ELSE commits
  /\ i' = i + 1
  /\ UNCHANGED <<config, rng, phase, args, result, mainVars, snapshot, runHist>>

\* t1 = now(); throughput = OPS / secs; the validation loop; the CSV row.
BzReport ==
  /\ phase = "timed"
  /\ i = Len(script)
  /\ \E el \in ElapsedTicks :
       /\ elapsed' = el
       /\ res' = [throughput_ops_sec |-> Throughput(num_ops, el), stats |-> stats]
  /\ hits' = SampleHits(leaf, script)
  /\ outcome' = "returned"
  /\ phase' = "done"
  /\ UNCHANGED <<config, rng, leaf, stats, i, args, script, index, rows, own,
                 snapshot, opHist, commits, runHist>>

NextBz == BzPrefill \/ BzDrawOps \/ BzBenchOp \/ BzReport

SpecBz == InitBz /\ [][NextBz]_vars

(***************************************************************************)
(* article1_sorted_unsorted.cpp: main.  stats is the file's global Nw,     *)
(* Nclf, Nmf; leaf is base_leaf.  PREFILL is scaled to 0..MaxPrefill,      *)
(* BENCH_OPS to 0..MaxOps and the validation sample to MaxSample keys.     *)
(***************************************************************************)
\* SimpleBPlusTree(NUM_LEAVES): leaves.resize(num_leaves)
Index0 == [l \in 0..(NUM_LEAVES - 1) |-> ArrayLeaf0(LEAF_KEYS)]

\* SimpleBPlusTree::insert
SimpleBPlusTree_insert(leaves, key, s) ==
  LET l == key % NUM_LEAVES
      r == insert_unsorted(leaves[l], key, s)
  IN [leaves |-> [leaves EXCEPT ![l] = r.leaf], s |-> r.s]

\* The cost s recorded beyond s0, added to the tally acc.
Tally(acc, s0, s) ==
  AddCost(acc, s.Nw - s0.Nw, s.Nclf - s0.Nclf, s.Nmf - s0.Nmf)

InitA1 ==
  /\ variant = "insert_sorted"
  /\ build = "little_endian"
  /\ seed \in Seeds
  /\ prefillMax = MaxPrefill
  /\ phase = "prefill"
  /\ FreshWith(<< >>, Index0)

\* for (int i = 0; i < PREFILL; i++) index.insert(dist(rng));
A1Prefill ==
  /\ phase = "prefill"
  /\ i < prefillMax
  /\ LET r == SimpleBPlusTree_insert(index, dist_key(seed, rng), stats)
     IN /\ index' = r.leaves
        /\ stats' = r.s
  /\ rng' = rng + 1
  /\ i' = i + 1
  /\ UNCHANGED <<config, leaf, phase, args, result, script, hits, rows, own,
                 snapshot, opHist, commits, runHist>>

\* vector<uint64_t> bench_keys(BENCH_OPS); for (auto &k : bench_keys)
\* k = dist(rng); LeafNode base_leaf; t0 = now(); ib = 0;
A1DrawKeys ==
  /\ phase = "prefill"
  /\ prefill' = i
  /\ \E n \in 0..MaxOps :
       /\ num_ops' = n
       /\ script' = DrawKeys(n)
       /\ rng' = rng + n
  /\ write_ratio' = 10
  /\ phase' = "sorted"
  /\ i' = 0
  /\ snapshot' = [stats |-> stats, leaf |-> leaf]
  /\ UNCHANGED <<config, leaf, stats, result, hits, index, rows, own, opHist,
                 commits, runHist>>

\* for (auto k : bench_keys) { insert_sorted(base_leaf, k); ib++; }
A1SortedOp ==
  /\ phase = "sorted"
  /\ i < Len(script)
  /\ DoInsert(script[i + 1])
  /\ own' = [own EXCEPT !.sorted = Tally(@, stats, stats')]
  /\ i' = i + 1
  /\ UNCHANGED <<config, rng, phase, args, result, script, hits, index, rows,
                 snapshot, commits, runHist>>

\* t1 = now(); t2 = now(); iu = 0;
A1EndSorted ==
  /\ phase = "sorted"
  /\ i = Len(script)
  /\ phase' = "tree"
  /\ i' = 0
  /\ UNCHANGED <<config, rng, leaf, stats, args, result, mainVars, snapshot,
                 opHist, commits, runHist>>

\* for (auto k : bench_keys) { index.insert(k); iu++; pcm_write(); }
A1TreeOp ==
  /\ phase = "tree"
  /\ i < Len(script)
  /\ LET r == SimpleBPlusTree_insert(index, script[i + 1], stats)
     IN /\ index' = r.leaves
        /\ stats' = pcm_write(r.s, 1)
        /\ own' = [own EXCEPT !.unsorted = Tally(@, stats, r.s)]
  /\ i' = i + 1
  /\ UNCHANGED <<config, rng, leaf, phase, args, result, script, hits, rows,
                 snapshot, opHist, commits, runHist>>

\* t3 = now(); tp_base = ib / secs_base; tp_tree = iu / secs_tree; the
\* validation loop; the two CSV rows.
A1Report ==
  /\ phase = "tree"
  /\ i = Len(script)
  /\ hits' = SampleHits(leaf, script)
  /\ \E secs_base \in ElapsedTicks, secs_tree \in ElapsedTicks :
       /\ elapsed' = secs_base
       /\ res' = [throughput_ops_sec |-> Throughput(num_ops, secs_base),
                  stats |-> stats]
       /\ rows' = [sorted |-> [throughput |-> Throughput(num_ops, secs_base),
                               stats |-> stats, hits |-> hits'],
                   unsorted |-> [throughput |-> Throughput(num_ops, secs_tree),
                                 stats |-> [Nw |-> stats.Nw \div 4,
                                            Nclf |-> stats.Nclf \div 4,
                                            Nmf |-> stats.Nmf \div 4],
                                 hits |-> hits']]
  /\ outcome' = "returned"
  /\ phase' = "done"
  /\ UNCHANGED <<config, rng, leaf, stats, i, args, script, index, own, snapshot,
                 opHist, commits, runHist>>

NextA1 == A1Prefill \/ A1DrawKeys \/ A1SortedOp \/ A1EndSorted \/ A1TreeOp \/ A1Report

SpecA1 == InitA1 /\ [][NextA1]_vars

(***************************************************************************)
(* pmwcas statement by statement, called directly with a descriptor or     *)
(* through bztree_insert.  script is the descriptor in flight, i the       *)
(* number of its entries applied, commits the number of calls made and     *)
(* snapshot the leaf and Stats at the call.                                *)
(***************************************************************************)
\* An iteration that walks the descriptor from its last entry.
NextEntryReversed(desc, j) == desc[Len(desc) - j]

\* for (auto &e : desc.entries): the entry the loop takes after j iterations.
NextEntry(desc, j) == desc[j + 1]

\* The 64-bit word read at addr.
LoadWord(mem, addr, bld) ==
  IF addr[1] = "keys" THEN mem.keys[addr[2]]
  ELSE IF bld = "little_endian"
       THEN mem.count + (mem.pad * 65536) * 65536
       ELSE mem.pad + (mem.count * 65536) * 65536

\* The descriptor bztree_insert builds for key.
InsertDescriptor(lf, key) ==
  <<[addr |-> <<"keys", lf.count>>, new_val |-> key],
    [addr |-> <<"count">>, new_val |-> lf.count + 1]>>

InitSteps ==
  /\ variant = "bztree"
  /\ build \in Builds
  /\ seed = 0
  /\ prefillMax = 0
  /\ phase = "idle"
  /\ Fresh

\* pmwcas(d, s) called with a descriptor of the caller's.
PmwcasEnter ==
  /\ phase = "idle"
  /\ commits < MaxCalls
  /\ \E desc \in Descriptors : script' = desc
  /\ last' = [op |-> "pmwcas", key |-> 0, full |-> FALSE, found |-> FALSE]
  /\ snapshot' = [stats |-> stats, leaf |-> leaf]
  /\ phase' = "persist_descriptor"
  /\ i' = 0
  /\ commits' = commits + 1
  /\ UNCHANGED <<config, rng, leaf, stats, args, result, hits, index, rows, own,
                 ins, att, runHist>>

\* bztree_insert(leaf, key, s): the capacity check, the descriptor, the call.
BzInsertEnter ==
  /\ phase = "idle"
  /\ commits < MaxCalls
  /\ \E key \in Keys :
       /\ last' = [op |-> "bztree_insert", key |-> key,
                   full |-> ~(leaf.count < CAP), found |-> FALSE]
       /\ IF leaf.count >= CAP
          THEN UNCHANGED <<script, phase>>
          ELSE /\ script' = InsertDescriptor(leaf, key)
               /\ phase' = "persist_descriptor"
  /\ snapshot' = [stats |-> stats, leaf |-> leaf]
  /\ i' = 0
  /\ commits' = commits + 1
  /\ UNCHANGED <<config, rng, leaf, stats, args, result, hits, index, rows, own,
                 ins, att, runHist>>

\* pcm_write(s, 2); pcm_flush(s); pcm_fence(s);
PersistDescriptor ==
  /\ phase = "persist_descriptor"
  /\ stats' = pcm_fence(pcm_flush(pcm_write(stats, 2)))
  /\ phase' = "apply"
  /\ UNCHANGED <<config, rng, leaf, i, args, result, mainVars, snapshot, opHist,
                 commits, runHist>>

\* *(e.addr) = e.new_val; pcm_write(s);
ApplyEntry ==
  /\ phase = "apply"
  /\ i < Len(script)
  /\ LET e == NextEntry(script, i)
     IN leaf' = StoreWord(leaf, e.addr, e.new_val, build)
  /\ stats' = pcm_write(stats, 1)
  /\ i' = i + 1
  /\ UNCHANGED <<config, rng, phase, args, result, mainVars, snapshot, opHist,
                 commits, runHist>>

\* pcm_flush(s); pcm_fence(s);
PersistFinal ==
  /\ phase = "apply"
  /\ i = Len(script)
  /\ stats' = pcm_fence(pcm_flush(stats))
  /\ phase' = "return"
  /\ UNCHANGED <<config, rng, leaf, i, args, result, mainVars, snapshot, opHist,
                 commits, runHist>>

\* return true;
PmwcasReturn ==
  /\ phase = "return"
  /\ last' = [last EXCEPT !.found = TRUE]
  /\ phase' = "idle"
  /\ UNCHANGED <<config, rng, leaf, stats, i, args, result, mainVars, snapshot,
                 ins, att, commits, runHist>>

NextSteps ==
  \/ PmwcasEnter
  \/ BzInsertEnter
  \/ PersistDescriptor
  \/ ApplyEntry
  \/ PersistFinal
  \/ PmwcasReturn

SpecSteps == InitSteps /\ [][NextSteps]_vars

(***************************************************************************)
(* article2_wbtree.cpp: main's blocks 1 and 2.  The same keys (prefill,    *)
(* then bench) are inserted into a LeafBTreeVolatile (leaf, stats) and a   *)
(* LeafBTreeLog (peer), the latter statement group by statement group.     *)
(* The keys are scaled to CAP + MaxOps, enough to pass the capacity.       *)
(***************************************************************************)
InitPair ==
  /\ variant = "LeafBTreeVolatile"
  /\ build = "little_endian"
  /\ seed \in Seeds
  /\ prefillMax = 0
  /\ phase = "pair"
  /\ Fresh

\* leaf.insert(k, s) on the volatile leaf, and the call of insert on the
\* logging leaf up to its capacity check.
PairInsert ==
  /\ phase = "pair"
  /\ i < CAP + MaxOps
  /\ DoInsert(dist_key(seed, rng))
  /\ snapshot' = [stats |-> peer.stats, leaf |-> peer.leaf]
  /\ phase' = IF peer.leaf.count >= CAP THEN "pair" ELSE "log_record"
  /\ commits' = IF peer.leaf.count >= CAP THEN commits ELSE commits + 1
  /\ rng' = rng + 1
  /\ i' = i + 1
  /\ UNCHANGED <<config, args, result, mainVars, runHist>>

\* LeafBTreeLog::insert, 1) the log record, flushed and fenced.
LogRecord ==
  /\ phase = "log_record"
  /\ peer' = [peer EXCEPT !.stats = WriteLogRecord(@)]
  /\ phase' = "log_update"
  /\ UNCHANGED <<config, rng, leaf, stats, i, args, result, mainVars, snapshot,
                 opHist, commits, run, first>>

\* LeafBTreeLog::insert, 2) the in-place update.
LogUpdate ==
  /\ phase = "log_update"
  /\ LET r == ShiftInsert(peer.leaf, last.key, peer.stats)
     IN peer' = [leaf |-> r.leaf, stats |-> r.s]
  /\ phase' = "log_persist"
  /\ UNCHANGED <<config, rng, leaf, stats, i, args, result, mainVars, snapshot,
                 opHist, commits, run, first>>

\* LeafBTreeLog::insert, 3) pcm_flush(s); pcm_fence(s);
LogPersist ==
  /\ phase = "log_persist"
  /\ peer' = [peer EXCEPT !.stats = pcm_fence(pcm_flush(@))]
  /\ phase' = "pair"
  /\ UNCHANGED <<config, rng, leaf, stats, i, args, result, mainVars, snapshot,
                 opHist, commits, run, first>>

NextPair == PairInsert \/ LogRecord \/ LogUpdate \/ LogPersist

SpecPair == InitPair /\ [][NextPair]_vars

(***************************************************************************)
(* Properties.                                                             *)
(***************************************************************************)
IsNonDecreasing(sq) == \A j \in 1..(Len(sq) - 1) : sq[j] <= sq[j + 1]

\* The sorted-shift leaves and their logging variants.
SortedVariants == {"insert_sorted", "LeafBTreeVolatile", "LeafBTreeLog",
                   "SortedLeaf", "LeafBaseline", "LeafLogging", "SimpleLeaf"}

\* C1: for every leaf variant, an insert called when the leaf's count has
\* reached its capacity changes neither the leaf nor any of the three counters.
\* (The std::vector leaves of the extension simulators keep growing.)
C1_FullInsertIsNoOp ==
  [][(last'.op = "insert" /\ rng' /= rng /\ Count(variant, leaf) >= Capacity(variant))
       => (leaf' = leaf /\ stats' = stats)]_vars

\* C2: in the sorted-shift leaves and their logging variants the stored keys at
\* indices 0..count-1 are non-decreasing after every sequence of inserts from
\* the empty leaf, duplicates and overflow attempts included.
C2_SortedInvariant ==
  variant \in SortedVariants => IsNonDecreasing(Stored(variant, leaf))

\* C2 witness: a logging leaf filled to its capacity with both keys, duplicates
\* among them, whose last insert was an overflow attempt.
C2_Witness ==
  /\ variant = "LeafBTreeLog"
  /\ last.op = "insert" /\ last.full
  /\ leaf.count = CAP
  /\ leaf.keys[0] = 1 /\ leaf.keys[1] = 1 /\ leaf.keys[CAP - 1] = 2

\* C3: search(key) is true for every key whose insert was applied below
\* capacity and false for every key never inserted, in every variant.
\* (Fails for the BzTree leaf on a big-endian build, where the store to count
\* leaves count at 0.)
C3_SearchRoundTrip ==
  \A k \in ProbeKeys :
    /\ k \in ins => Search(variant, leaf, k, stats).found
    /\ k \notin att => ~Search(variant, leaf, k, stats).found

\* C4: one pmwcas call with a descriptor of k entries adds exactly 2 + k word
\* writes, 2 flushes and 2 fences to the Stats it is given, and returns true.
C4_PmwcasCost ==
  last.op = "pmwcas"
    => /\ stats = AddCost(snapshot.stats, 2 + last.key, 2, 2)
       /\ last.found

\* Two calls made, the first with an empty descriptor and the last with two
\* entries.
C4_Witness ==
  /\ phase = "pmwcas" /\ i = 2
  /\ last.op = "pmwcas" /\ last.key = 2 /\ last.found
  /\ snapshot.stats = [Nw |-> 2, Nclf |-> 2, Nmf |-> 2]
  /\ stats = [Nw |-> 6, Nclf |-> 4, Nmf |-> 4]

\* C5: a search call leaves the three counters, count and keys as they were,
\* and a run with write_ratio = 0.0 ends with the counters (and the leaf) of
\* the post-prefill snapshot.
C5_SearchNeverMutates ==
  [][/\ (last'.op = "search" /\ rng' /= rng) => (leaf' = leaf /\ stats' = stats)
     /\ (phase' = "done" /\ write_ratio' = 0)
          => (stats' = snapshot'.stats /\ res'.stats = snapshot'.stats
              /\ leaf' = snapshot'.leaf)]_vars

\* C5 witness: an unsorted vector leaf prefilled to 7/10 of the capacity, run
\* with write_ratio = 0.0 for MaxOps searches, the last of which found its key.
C5_Witness ==
  /\ variant = "UnsortedLeaf"
  /\ phase = "done" /\ write_ratio = 0 /\ num_ops = MaxOps
  /\ prefill = (Capacity(variant) * 7) \div 10
  /\ last.op = "search" /\ last.found
  /\ stats.Nw = prefill

\* C6 as stated: a sorted in-place leaf given 5,3,4,1,2 ends holding 1..5 with
\* 12 word writes (7 shifts and 5 key writes).
C6_ScenarioC_Stated ==
  (phase = "script" /\ script = ScenarioKeys /\ i = Len(script))
    => /\ Stored(variant, leaf) = <<1, 2, 3, 4, 5>>
       /\ stats.Nw = 12

\* C6: a sorted in-place leaf given 5,3,4,1,2 ends holding 1..5 with 13 word
\* writes: 8 shifts (0+1+1+3+3) and 5 key writes.
C6_ScenarioC ==
  (phase = "script" /\ script = ScenarioKeys /\ i = Len(script))
    => /\ Stored(variant, leaf) = <<1, 2, 3, 4, 5>>
       /\ stats.Nw = 13

C6_Witness ==
  /\ phase = "script" /\ variant = "insert_sorted"
  /\ script = ScenarioKeys /\ i = 5
  /\ last.op = "insert" /\ last.key = 2
  /\ leaf.count = 5 /\ leaf.keys[0] = 1 /\ leaf.keys[4] = 5
  /\ stats.Nw = 13

\* C7: in article3's main (capacity 32, 22 keys prefilled) the timed inserts
\* that pass the capacity check number min(OPS, 10), count never exceeds 32,
\* and a leaf whose count is 32 has cost 128 word writes, 64 flushes and 64
\* fences.
C7_ScenarioB ==
  /\ leaf.count <= CAP
  /\ phase = "done" => commits = (IF num_ops < 10 THEN num_ops ELSE 10)
  /\ leaf.count = CAP => stats = [Nw |-> 128, Nclf |-> 64, Nmf |-> 64]
  /\ (phase = "done" /\ num_ops >= 10) => leaf.count = CAP

\* C8: a second run with the same seed and arguments ends with the same three
\* counters and the same leaf contents as the first, whatever the two elapsed
\* times were.
C8_Deterministic ==
  (run = 2 /\ phase = "done") => (res.stats = first.stats /\ leaf = first.leaf)

\* C8 witness: a second run finished, with a prefilled leaf and a timed phase
\* that mixed inserts and searches.
C8_Witness ==
  /\ run = 2 /\ phase = "done"
  /\ prefill = 1 /\ num_ops = MaxOps
  /\ commits >= 1 /\ commits < num_ops
  /\ elapsed = 1
  /\ res.stats.Nw > 0

\* C9: the counters of each CSV row of article1's main are the costs recorded
\* by that run's own insert calls.
C9_NoSharedState ==
  phase = "done"
    => /\ rows.sorted.stats = own.sorted
       /\ rows.unsorted.stats = own.unsorted

\* C10: whenever the elapsed time is zero or negative, the run ends in an error
\* and no throughput is produced by the division.
C10_DegenerateTimingGuarded ==
  (phase = "done" /\ elapsed <= 0)
    => (outcome = "error" /\ res.throughput_ops_sec.kind = "none")

\* The last of the first n entries of desc that names addr.
LastEntryAt(desc, n, addr) ==
  CHOOSE j \in 1..n :
    /\ desc[j].addr = addr
    /\ \A m \in (j + 1)..n : desc[m].addr /= addr

\* After the first n entries every word they name holds the value of the last
\* of them that names it, and every other word of the leaf the value it had at
\* the call.
AppliedInOrder(n) ==
  LET named == {script[j].addr : j \in 1..n}
  IN /\ \A addr \in named :
          LoadWord(leaf, addr, build) = script[LastEntryAt(script, n, addr)].new_val
     /\ \A j \in DOMAIN leaf.keys :
          <<"keys", j>> \notin named => leaf.keys[j] = snapshot.leaf.keys[j]
     /\ <<"count">> \notin named
          => (leaf.count = snapshot.leaf.count /\ leaf.pad = snapshot.leaf.pad)

\* C11: pmwcas keeps its order.  Until the descriptor is persisted (2 word
\* writes, 1 flush, 1 fence) no word of the leaf has changed; the entries are
\* then applied in descriptor order with one word write each; the last flush
\* and fence come after all entries; at the return every named word holds its
\* entry's value, the last entry winning, and the call reports true.  In
\* bztree_insert the key slot at the old count is stored before the count
\* word.
C11_PmwcasOrder ==
  /\ phase = "persist_descriptor"
       => (leaf = snapshot.leaf /\ stats = snapshot.stats)
  /\ phase = "apply"
       => /\ stats = AddCost(snapshot.stats, 2 + i, 1, 1)
          /\ i <= Len(script)
          /\ AppliedInOrder(i)
  /\ phase = "return"
       => /\ stats = AddCost(snapshot.stats, 2 + Len(script), 2, 2)
          /\ i = Len(script)
          /\ AppliedInOrder(Len(script))
  /\ (phase = "idle" /\ last.found)
       => /\ stats = AddCost(snapshot.stats, 2 + Len(script), 2, 2)
          /\ AppliedInOrder(Len(script))
  /\ (last.op = "bztree_insert" /\ phase = "apply" /\ i = 1)
       => /\ leaf.keys[snapshot.leaf.count] = last.key
          /\ leaf.count = snapshot.leaf.count
  /\ (last.op = "bztree_insert" /\ leaf.count /= snapshot.leaf.count)
       => /\ leaf.keys[snapshot.leaf.count] = last.key
          /\ leaf.count = snapshot.leaf.count + 1

\* C11 witness: a returned call whose two entries named the same word, the
\* second value standing, after a bztree_insert that raised count.
C11_Witness ==
  /\ phase = "idle" /\ last.op = "pmwcas" /\ last.found
  /\ Len(script) = 2
  /\ script[1].addr = <<"keys", 0>> /\ script[2].addr = <<"keys", 0>>
  /\ script[1].new_val = 1 /\ script[2].new_val = 2
  /\ leaf.keys[0] = 2 /\ leaf.count = 1
  /\ stats = [Nw |-> 8, Nclf |-> 4, Nmf |-> 4]

\* The array leaves that insert in place by scan and shift, without a log.
ShiftVariants == {"LeafBTreeVolatile", "insert_sorted"}

\* The first index of lf whose key is >= k, the count if there is none.
FirstGE(lf, k) ==
  IF \E j \in 0..(lf.count - 1) : lf.keys[j] >= k
  THEN CHOOSE j \in 0..(lf.count - 1) :
         /\ lf.keys[j] >= k
         /\ \A m \in 0..(j - 1) : lf.keys[m] < k
  ELSE lf.count

\* C12: in LeafBTreeVolatile and insert_sorted an insert of k below capacity
\* puts k at the first index whose key is >= k, moves every key >= k one slot
\* to the right, leaves every key < k where it was, raises count by 1 and
\* records (number of keys >= k) + 1 word writes.
C12_ShiftInsertEffect ==
  [][(variant \in ShiftVariants /\ last'.op = "insert" /\ rng' /= rng /\ ~last'.full)
       => LET k == last'.key
              old == 0..(leaf.count - 1)
          IN /\ leaf'.count = leaf.count + 1
             /\ leaf'.keys[FirstGE(leaf, k)] = k
             /\ \A j \in old : leaf.keys[j] >= k => leaf'.keys[j + 1] = leaf.keys[j]
             /\ \A j \in old : leaf.keys[j] < k => leaf'.keys[j] = leaf.keys[j]
             /\ stats'.Nw = stats.Nw + Cardinality({j \in old : leaf.keys[j] >= k}) + 1]_vars

\* C12 witness: keys 2, 1, 1 inserted in that order, the last insert moving an
\* equal key and a larger one (1 + 2 + 3 word writes).
C12_Witness ==
  /\ variant = "LeafBTreeVolatile"
  /\ last.op = "insert" /\ last.key = 1 /\ ~last.full
  /\ leaf.count = 3
  /\ leaf.keys[0] = 1 /\ leaf.keys[1] = 1 /\ leaf.keys[2] = 2
  /\ stats.Nw = 6

\* C13: fed the same keys from empty, LeafBTreeLog and LeafBTreeVolatile hold
\* the same keys and count after each insert, and the logging leaf's Stats
\* exceed the other's by 4 word writes, 2 flushes and 2 fences per insert
\* applied below capacity: the log record (4 writes, flush, fence) before the
\* update, a flush and a fence after it, nothing for a dropped insert.
C13_LoggingMatchesShift ==
  /\ phase = "pair"
       => /\ peer.leaf = leaf
          /\ peer.stats = AddCost(stats, 4 * commits, 2 * commits, 2 * commits)
          /\ last.op = "insert"
               => [leaf |-> peer.leaf, s |-> peer.stats]
                    = LeafBTreeLog_insert(snapshot.leaf, last.key, snapshot.stats)
          /\ (last.op = "insert" /\ last.full) => peer.stats = snapshot.stats
  /\ phase = "log_record"
       => (peer.leaf = snapshot.leaf /\ peer.stats = snapshot.stats)
  /\ phase = "log_update"
       => /\ peer.leaf = snapshot.leaf
          /\ peer.stats = AddCost(snapshot.stats, 4, 1, 1)
  /\ phase = "log_persist"
       => /\ peer.leaf = leaf
          /\ peer.stats = AddCost(stats, 4 * commits, 2 * commits - 1, 2 * commits - 1)

\* C13 witness: both leaves full with both keys after a dropped insert, the
\* logging leaf 128 word writes, 64 flushes and 64 fences ahead.
C13_Witness ==
  /\ phase = "pair" /\ i = CAP + 1
  /\ last.op = "insert" /\ last.full
  /\ leaf.count = CAP /\ peer.leaf.count = CAP /\ commits = CAP
  /\ leaf.keys[0] = 1 /\ leaf.keys[CAP - 1] = 2 /\ peer.leaf.keys[CAP - 1] = 2
  /\ stats.Nw > CAP
  /\ peer.stats.Nw = stats.Nw + 128
  /\ peer.stats.Nclf = 64 /\ peer.stats.Nmf = 64

\* The leaves the sources name LeafWBTree: the array leaf of article2_wbtree
\* and the vector leaf of article2_extension.
WBTreeVariants == {"LeafWBTree", "LeafWBTreeExt"}

\* C14: a LeafWBTree insert below capacity stores the key at index old count
\* and leaves the earlier keys where they were, recording 2 word writes, 1
\* flush and 1 fence; hence always Nw = 2 * count and Nclf = Nmf = count.
C14_AppendOnly ==
  [][/\ (variant \in WBTreeVariants /\ last'.op = "insert" /\ rng' /= rng /\ ~last'.full)
          => /\ Stored(variant, leaf') = Append(Stored(variant, leaf), last'.key)
             /\ stats' = AddCost(stats, 2, 1, 1)
     /\ variant \in WBTreeVariants
          => /\ stats'.Nw = 2 * Count(variant, leaf')
             /\ stats'.Nclf = Count(variant, leaf')
             /\ stats'.Nmf = Count(variant, leaf')]_vars

====
